---- MODULE Spec2Model ----
(***************************************************************************)
(* Model of the two components of the voice agent that carry design        *)
(* content: the pause-detecting transcription segmenter                    *)
(* (assemblyAi/streamer.py, class ConversationalStreamer) and the vector    *)
(* store client (qdrant_rag/rag_client.py, class RagClient, with the older  *)
(* module-level functions of rag/rag_retrieve.py).                          *)
(*                                                                         *)
(* The segmenter is modelled at the granularity of its shared-memory        *)
(* accesses: the event-delivery thread, the main thread and one thread per  *)
(* threading.Timer interleave.  Time is kept as the order of instants: the  *)
(* arrival T_k of the k-th Turn event with a non-empty transcript and the   *)
(* start S_k of the timer created for it satisfy T_1 <= S_1 <= T_2 <= ...,  *)
(* so the deadlines T_k + pause_duration and S_k + pause_duration pass in   *)
(* that order; "elapsed" counts the deadlines that have passed.             *)
(***************************************************************************)
EXTENDS Integers, Sequences, FiniteSets, TLC

\* ------------------------------------------------------------------ bounds
MaxEvents == 3      \* Turn events delivered in one session

\* ------------------------------------------------------------ text values
\* A transcript is a sequence of one-character strings.
Transcripts ==
    { <<>>, <<"a">>, <<"a", "b">>, <<"a", "b", "c">>, <<" ">>, <<" ", "a">> }

RECURSIVE lstrip(_)
lstrip(s) == IF s # <<>> /\ Head(s) = " " THEN lstrip(Tail(s)) ELSE s

RECURSIVE rstrip(_)
rstrip(s) ==
    IF s # <<>> /\ s[Len(s)] = " " THEN rstrip(SubSeq(s, 1, Len(s) - 1)) ELSE s

\* str.strip()
strip(s) == rstrip(lstrip(s))

\* ------------------------------------------- vector store client: inputs
\* ------------------------------------------------------------------ bounds
MaxPoints == 2      \* points written in one run

\* ------------------------------------------------------------------ inputs
None == "None"                          \* Python's None as an argument
Procs == {1, 2}                         \* callers of the client
CollectionArgs == {"T", None}           \* collection_name arguments
\* (text, name) arguments of inject_text; None leaves name at its default
Injections == { <<"The sky is blue", "doc1">>, <<"Grass is green", None>> }
Queries == {"What color is the sky?"}
\* filename arguments of inject_documents and what the files hold
Filenames == {"missing.txt", "empty.txt", "blank.txt", "doc.txt"}
FilesOnDisk == Filenames \ {"missing.txt"}
FileText(filename) ==
    CASE filename = "empty.txt" -> ""
      [] filename = "blank.txt" -> " "
      [] OTHER -> "Grass is green"
\* The characters of a file's text, as far as str.strip() looks at them.
Characters(text) ==
    CASE text = "" -> <<>>
      [] text = " " -> <<" ">>
      [] OTHER -> <<"G", "n">>
Limits == {1, 3}
DefaultLimit == 3                       \* limit=3, the default of the read calls
StoredSizes == {2, 3}                   \* sizes of collections made by other tools

\* self.collection_name, the constructor's default, rag_client.py line 14.
DefaultCollection == "Default"
CollNames == {"T", DefaultCollection}

\* The embedding model: one fixed-length vector per text (all of norm 5).
Embedding(text) ==
    CASE text = "The sky is blue" -> <<4, 3>>
      [] text = "What color is the sky?" -> <<3, 4>>
      [] text = "Grass is green" -> <<5, 0>>
      [] OTHER -> <<0, 5>>

RECURSIVE Dot(_, _)
Dot(u, v) == IF u = <<>> THEN 0 ELSE Head(u) * Head(v) + Dot(Tail(u), Tail(v))

\* Cosine similarity in thousandths: Dot / (5 * 5) * 1000.
Cosine(u, v) == Dot(u, v) * 40


\* ------------------------------------------------------------------- state
VARIABLES
    api_key,                \* module-level api_key is set
    client,                 \* self.client is not None
    conn,                   \* streaming connection: "none", "open", "closed"
    is_running,             \* self.is_running
    on_transcript_callback, \* a consumer callback is registered
    accumulated_transcript, \* self.accumulated_transcript
    accSrc,                 \* history: which non-empty Turn event wrote it (0: cleared)
    last_activity_time,     \* self.last_activity_time, as the event that stamped it
    pause_timer,            \* self.pause_timer: timer id, 0 for None
    timer_lock,             \* self.timer_lock: holding timer thread, 0 when free
    timers,                 \* the threading.Timer objects; timer k is started for event k
    elapsed,                \* number of deadlines T_1+D, S_1+D, T_2+D, ... that have passed
    transcript_queue,       \* self.transcript_queue
    set_params_sent,        \* client.set_params(format_turns=True) was called
    mainpc,                 \* main thread position
    stops,                  \* number of stop_streaming calls begun
    evpc,                   \* event-delivery thread position
    nEvents,                \* Turn events delivered so far
    turns,                  \* Turn events with a non-empty transcript so far
    scen,                   \* history: progress through "a", "ab", "abc" (4: another run)
    emitted,                \* history: flushes, [text, src, branch, early, called, raised]
    termText,               \* history: accumulated text when on_terminated was entered
    termSrc,                \* history: accSrc when on_terminated was entered
    stopSrc,                \* history: accSrc of non-blank text at the last stop_streaming
    error_logged,           \* history: on_error has handled an error event
    unlocked,               \* history: shared accesses made without timer_lock
    received,               \* history: the utterances get_transcript has returned
    lastGet,                \* history: how the last get_transcript call ended
    terminate_sent,         \* client.disconnect(terminate=True) has been called
    stream_end,             \* history: how client.stream() ended, "" while it has not
    analysed                \* number of _run_agent_analysis threads that have ended

\* State of the vector store and of the callers of its client.
VARIABLES
    collections,    \* the Qdrant store: name -> [exists, size, points]
    nextId,         \* number of ids uuid.uuid4() has produced
    rpc,            \* position of each caller inside its call
    rloc,           \* locals of the call in progress
    rlast           \* history: the last completed call of each caller

ragVars == << collections, nextId, rpc, rloc, rlast >>

segVars == << api_key, client, conn, is_running, on_transcript_callback,
           accumulated_transcript, accSrc, last_activity_time, pause_timer,
           timer_lock, timers, elapsed, transcript_queue, set_params_sent,
           mainpc, stops, evpc, nEvents, turns, scen, emitted,
           termText, termSrc, stopSrc, error_logged, unlocked,
           received, lastGet, terminate_sent, stream_end, analysed >>

vars == << segVars, ragVars >>

\* groups used in UNCHANGED clauses
sessVars == << api_key, client, on_transcript_callback >>
mainVars == << mainpc, stops, stopSrc, terminate_sent, stream_end >>
accVars == << accumulated_transcript, accSrc, last_activity_time >>
outVars == << transcript_queue, emitted >>
evtVars == << nEvents, turns, scen >>
termVars == << termText, termSrc >>
getVars == << received, lastGet >>

TimerIds == 1..MaxEvents

\* A threading.Timer: pc is the position of its thread, finished its Event flag.
NoTimer == [pc |-> "unborn", finished |-> FALSE]

\* ConversationalStreamer.__init__, with a consumer callback registered as
\* ConversationHandler.start_conversation does.
SegInit(keys) ==
    /\ api_key \in keys
    /\ client = FALSE
    /\ conn = "none"
    /\ is_running = FALSE
    /\ on_transcript_callback = TRUE
    /\ accumulated_transcript = <<>>
    /\ accSrc = 0
    /\ last_activity_time = 0
    /\ pause_timer = 0
    /\ timer_lock = 0
    /\ timers = [i \in TimerIds |-> NoTimer]
    /\ elapsed = 0
    /\ transcript_queue = <<>>
    /\ set_params_sent = FALSE
    /\ mainpc = "init"
    /\ stops = 0
    /\ evpc = "idle"
    /\ nEvents = 0
    /\ turns = 0
    /\ scen = 0
    /\ emitted = <<>>
    /\ termText = <<>>
    /\ termSrc = 0
    /\ stopSrc = 0
    /\ error_logged = FALSE
    /\ unlocked = {}
    /\ received = <<>>
    /\ lastGet = "no call"
    /\ terminate_sent = FALSE
    /\ stream_end = ""
    /\ analysed = 0

Absent == [exists |-> FALSE, size |-> 0, points |-> {}]

NoLocals ==
    [op |-> "", text |-> "", coll |-> "", name |-> "", size |-> 0,
     faulty |-> FALSE, preAbsent |-> FALSE, created |-> FALSE,
     hadSize |-> 0, again |-> FALSE, firstCreated |-> FALSE,
     firstAbsent |-> FALSE, firstHadSize |-> 0, embedded |-> FALSE,
     preEmpty |-> FALSE]

NoCall ==
    [op |-> "", variant |-> "", coll |-> "", text |-> "", name |-> "",
     limit |-> 0, size |-> 0, ret |-> <<>>, returnsNone |-> FALSE,
     raised |-> FALSE, msg |-> "", id |-> 0, faulty |-> FALSE,
     preAbsent |-> FALSE, preEmpty |-> FALSE, changed |-> FALSE,
     created |-> FALSE, hadSize |-> 0, again |-> FALSE,
     firstCreated |-> FALSE, firstAbsent |-> FALSE, firstHadSize |-> 0,
     fresh |-> FALSE, embedded |-> FALSE, othersSame |-> FALSE]

\* No call of the vector store client is in progress or has been made.
RagIdle(stores) ==
    /\ collections \in stores
    /\ nextId = 0
    /\ rpc = [p \in Procs |-> "idle"]
    /\ rloc = [p \in Procs |-> NoLocals]
    /\ rlast = [p \in Procs |-> NoCall]

\* A segmenter session next to an empty, unused store.
Init == SegInit(BOOLEAN) /\ RagIdle({[c \in CollNames |-> Absent]})

\* Number of timers started so far.
NumStarted == Cardinality({i \in TimerIds : timers[i].pc # "unborn"})

\* pause_duration has passed since the arrival of the k-th non-empty Turn event.
WindowElapsed(k) == elapsed >= 2 * k - 1

\* pause_duration has passed since timer k was started (threading.Timer's interval).
TimerDue(k) == elapsed >= 2 * k

\* The next deadline passes.  Time advances between any two steps of any
\* thread, but only the deadlines of instants that have occurred can pass.
Elapse ==
    /\ elapsed < turns + NumStarted
    /\ elapsed' = elapsed + 1
    /\ UNCHANGED << ragVars, getVars, analysed, sessVars, conn, is_running, accVars, pause_timer,
                    timer_lock, timers, outVars, set_params_sent, mainVars,
                    evpc, evtVars, termVars, error_logged, unlocked >>

\* ------------------------------------------------- segmenter: shared helpers
\* threading.Timer.cancel(): sets the finished flag.  A thread still in
\* finished.wait() returns from it, finds the flag set and ends without
\* calling the callback; a thread already past the wait is unaffected.
cancel(ts, i) ==
    [ts EXCEPT ![i].finished = TRUE,
               ![i].pc = IF ts[i].pc = "wait" THEN "done" ELSE ts[i].pc]

\* "if self.pause_timer: self.pause_timer.cancel()"
CancelPending(ts, handle) == IF handle # 0 THEN cancel(ts, handle) ELSE ts

\* transcript_queue.put(transcript) followed by
\* "if self.on_transcript_callback: self.on_transcript_callback(transcript)".
\* early: the flush happens before pause_duration has passed since the
\* latest non-empty Turn event.
Deliver_twice(transcript, src, branch) ==
    LET e == [text |-> transcript, src |-> src, branch |-> branch,
              early |-> ~WindowElapsed(turns), called |-> on_transcript_callback,
              raised |-> FALSE]
    IN /\ transcript_queue' = transcript_queue \o << transcript, transcript >>
       /\ emitted' = emitted \o << e, e >>

Deliver(transcript, src, branch) ==
    /\ transcript_queue' = Append(transcript_queue, transcript)
    /\ emitted' = Append(emitted, [text |-> transcript, src |-> src,
                                   branch |-> branch,
                                   early |-> ~WindowElapsed(turns),
                                   called |-> on_transcript_callback,
                                   raised |-> FALSE])

\* Progress of the run "a", "ab", "abc", each event delivered while the
\* window of the one before is open.
ScenStep(text) ==
    IF scen = 0 /\ nEvents = 0 /\ text = <<"a">> THEN 1
    ELSE IF scen = 1 /\ text = <<"a", "b">> /\ ~WindowElapsed(turns) THEN 2
    ELSE IF scen = 2 /\ text = <<"a", "b", "c">> /\ ~WindowElapsed(turns) THEN 3
    ELSE 4

\* --------------------------------------------- event thread: on_turn, 75-89
HasText_always(text) == TRUE

\* "if event.transcript:", line 79
HasText(text) == text # <<>>

\* Lines 76-81: the transcript is stored and the activity time stamped
\* without timer_lock; a non-empty transcript goes on to _reset_pause_timer.
\* The formatting request of lines 87-89 touches only the streaming client
\* and is recorded here, with the event's turn_is_formatted flag; its
\* end_of_turn flag is only logged (line 76).
on_turn(text, end_of_turn, formatted) ==
    /\ evpc = "idle"
    /\ conn = "open"
    /\ nEvents < MaxEvents
    /\ nEvents' = nEvents + 1
    /\ scen' = ScenStep(text)
    /\ set_params_sent' = (set_params_sent \/ ~formatted)
    /\ IF HasText(text)
       THEN /\ accumulated_transcript' = text
            /\ accSrc' = turns + 1
            /\ last_activity_time' = turns + 1
            /\ turns' = turns + 1
            /\ unlocked' = unlocked \cup {<<"on_turn", "accumulated_transcript">>}
            /\ evpc' = "reset"
       ELSE UNCHANGED << accVars, turns, unlocked, evpc >>
    /\ UNCHANGED << ragVars, getVars, analysed, sessVars, conn, is_running, pause_timer, timer_lock,
                    timers, elapsed, outVars, mainVars, termVars,
                    error_logged >>

\* _reset_pause_timer, 61-70, called from line 84.  The with-block
\* runs once timer_lock is free: cancel the referenced timer, create and
\* start a new one.
_reset_pause_timer ==
    /\ evpc = "reset"
    /\ timer_lock = 0
    /\ timers' = [CancelPending(timers, pause_timer) EXCEPT
                     ![turns] = [pc |-> "wait", finished |-> FALSE]]
    /\ pause_timer' = turns
    /\ evpc' = "idle"
    /\ UNCHANGED << ragVars, getVars, analysed, sessVars, conn, is_running, accVars, timer_lock, elapsed,
                    outVars, set_params_sent, mainVars, evtVars, termVars, error_logged,
                    unlocked >>

\* ------------------------------------ timer threads: threading.Timer.run()
\* The wait times out with the flag still clear: the thread is committed to
\* calling _on_pause_detected and a later cancel() no longer stops it.
TimerFire(i) ==
    /\ timers[i].pc = "wait"
    /\ ~timers[i].finished
    /\ TimerDue(i)
    /\ timers' = [timers EXCEPT ![i].pc = "fired"]
    /\ UNCHANGED << ragVars, getVars, analysed, sessVars, conn, is_running, accVars, pause_timer,
                    timer_lock, elapsed, outVars, set_params_sent, mainVars,
                    evpc, evtVars, termVars, error_logged, unlocked >>

\* _on_pause_detected, 46-47 (and 59 when the text is blank): take
\* timer_lock and test accumulated_transcript.strip().
PauseEnter(i) ==
    /\ timers[i].pc = "fired"
    /\ timer_lock = 0
    /\ IF strip(accumulated_transcript) # <<>>
       THEN /\ timer_lock' = i
            /\ timers' = [timers EXCEPT ![i].pc = "emit"]
            /\ UNCHANGED pause_timer
       ELSE /\ pause_timer' = 0
            /\ timers' = [timers EXCEPT ![i].pc = "done", ![i].finished = TRUE]
            /\ UNCHANGED timer_lock
    /\ UNCHANGED << ragVars, getVars, analysed, sessVars, conn, is_running, accVars, elapsed, outVars,
                    set_params_sent, mainVars, evpc, evtVars, termVars,
                    error_logged, unlocked >>

\* _on_pause_detected, 48-53: read the text again, put it on the queue and
\* hand it to the callback.
PauseEmit(i) ==
    /\ timers[i].pc = "emit"
    /\ Deliver(strip(accumulated_transcript), accSrc, "pause")
    /\ timers' = [timers EXCEPT ![i].pc = "clear"]
    /\ UNCHANGED << ragVars, getVars, analysed, sessVars, conn, is_running, accVars, pause_timer,
                    timer_lock, elapsed, set_params_sent, mainVars, evpc,
                    evtVars, termVars, error_logged, unlocked >>

PauseClear_holds(i) ==
    /\ timers[i].pc = "clear"
    /\ accumulated_transcript' = <<>>
    /\ accSrc' = 0
    /\ pause_timer' = 0
    /\ timers' = [timers EXCEPT ![i].pc = "done", ![i].finished = TRUE]
    /\ UNCHANGED << ragVars, getVars, analysed, sessVars, conn, is_running,
                    last_activity_time, elapsed, outVars, set_params_sent,
                    mainVars, evpc, evtVars, termVars, error_logged, unlocked,
                    timer_lock >>

\* _on_pause_detected, 56-59: clear the text and the timer handle, release
\* timer_lock; Timer.run() then sets finished.
PauseClear(i) ==
    /\ timers[i].pc = "clear"
    /\ accumulated_transcript' = <<>>
    /\ accSrc' = 0
    /\ pause_timer' = 0
    /\ timer_lock' = 0
    /\ timers' = [timers EXCEPT ![i].pc = "done", ![i].finished = TRUE]
    /\ UNCHANGED << ragVars, getVars, analysed, sessVars, conn, is_running, last_activity_time, elapsed,
                    outVars, set_params_sent, mainVars, evpc, evtVars,
                    termVars, error_logged, unlocked >>

\* --------------------------------------- event thread: on_terminated, 91-110
\* Lines 92-93, before the lock is requested.
on_terminated ==
    /\ evpc = "idle"
    /\ conn = "open"
    /\ is_running' = FALSE
    /\ conn' = "closed"
    /\ evpc' = "term"
    /\ termText' = accumulated_transcript
    /\ termSrc' = accSrc
    /\ UNCHANGED << ragVars, getVars, analysed, sessVars, accVars, pause_timer, timer_lock, timers,
                    elapsed, outVars, set_params_sent, mainVars, evtVars,
                    error_logged, unlocked >>

\* Lines 96-110, the with-block: cancel and forget the timer, flush the
\* remaining text.  The event thread is the only writer without the lock,
\* so nothing interleaves with the block.
TermFlush ==
    /\ evpc = "term"
    /\ timer_lock = 0
    /\ timers' = CancelPending(timers, pause_timer)
    /\ pause_timer' = 0
    /\ IF strip(accumulated_transcript) # <<>>
       THEN /\ Deliver(strip(accumulated_transcript), accSrc, "term")
            /\ accumulated_transcript' = <<>>
            /\ accSrc' = 0
       ELSE UNCHANGED << outVars, accumulated_transcript, accSrc >>
    /\ evpc' = "dead"
    /\ UNCHANGED << ragVars, getVars, analysed, sessVars, conn, is_running, last_activity_time,
                    timer_lock, elapsed, set_params_sent, mainVars, evtVars,
                    termVars, error_logged, unlocked >>

\* on_error, 112-113: the error is logged, nothing else.  A fatal error
\* ends the connection without a Termination event.
on_error(fatal) ==
    /\ evpc = "idle"
    /\ conn = "open"
    /\ error_logged' = TRUE
    /\ conn' = IF fatal THEN "closed" ELSE conn
    /\ evpc' = IF fatal THEN "dead" ELSE evpc
    /\ UNCHANGED << ragVars, getVars, analysed, sessVars, is_running, accVars, pause_timer, timer_lock,
                    timers, elapsed, outVars, set_params_sent, mainVars,
                    evtVars, termVars, unlocked >>

\* ------------------------------------- main thread: start_streaming, 115-145
\* Lines 117-137: without an api key ValueError is raised before a client
\* exists; otherwise the client is created, the handlers registered and the
\* connection opened.
start_streaming ==
    /\ mainpc = "init"
    /\ IF api_key
       THEN /\ client' = TRUE
            /\ conn' = "open"
            /\ mainpc' = "connected"
       ELSE /\ mainpc' = "raised"
            /\ UNCHANGED << client, conn >>
    /\ UNCHANGED << ragVars, getVars, analysed, api_key, on_transcript_callback, is_running, accVars,
                    pause_timer, timer_lock, timers, elapsed, outVars,
                    set_params_sent, stops, stopSrc, terminate_sent, stream_end,
                    evpc, evtVars, termVars, error_logged, unlocked >>

\* Line 139, then stream() of line 141 is entered.
SetRunning ==
    /\ mainpc = "connected"
    /\ is_running' = TRUE
    /\ mainpc' = "stream"
    /\ UNCHANGED << ragVars, getVars, analysed, sessVars, conn, accVars, pause_timer, timer_lock, timers,
                    elapsed, outVars, set_params_sent, stops, stopSrc,
                    terminate_sent, stream_end, evpc, evtVars, termVars,
                    error_logged, unlocked >>

\* The ways client.stream() of line 141 ends.
StreamEndings == {"return", "KeyboardInterrupt", "Exception"}

\* Lines 141-145: stream() ends; KeyboardInterrupt is caught and logged,
\* another exception is not caught; in each case the finally clause calls
\* stop_streaming.
StreamEnds(how) ==
    /\ mainpc = "stream"
    /\ mainpc' = "stop"
    /\ stream_end' = how
    /\ UNCHANGED << ragVars, getVars, analysed, sessVars, conn, is_running, accVars, pause_timer,
                    timer_lock, timers, elapsed, outVars, set_params_sent,
                    stops, stopSrc, terminate_sent, evpc, evtVars, termVars,
                    error_logged, unlocked >>

\* A session calls stop_streaming at most twice: from the finally clause of
\* start_streaming and from ConversationHandler.stop_conversation.
StopCalls == 2

stop_streaming_noclient ==
    /\ mainpc \in {"stop", "raised", "stopped"}
    /\ stops < StopCalls
    /\ stops' = stops + 1
    /\ stopSrc' = IF strip(accumulated_transcript) # <<>> THEN accSrc ELSE 0
    /\ mainpc' = "stoplock"
    /\ UNCHANGED << ragVars, getVars, analysed, sessVars, conn, is_running, accVars,
                    pause_timer, timer_lock, timers, elapsed, outVars,
                    set_params_sent, evpc, evtVars, termVars, error_logged,
                    unlocked, terminate_sent, stream_end >>

\* stop_streaming, 149-151: disconnect(terminate=True) asks the service to
\* end the session and is_running is cleared; both are skipped without a
\* client.  Called from start_streaming's finally clause and again from
\* ConversationHandler.stop_conversation.
stop_streaming ==
    /\ mainpc \in {"stop", "raised", "stopped"}
    /\ stops < StopCalls
    /\ stops' = stops + 1
    /\ stopSrc' = IF strip(accumulated_transcript) # <<>> THEN accSrc ELSE 0
    /\ terminate_sent' = (terminate_sent \/ client)
    /\ is_running' = IF client THEN FALSE ELSE is_running
    /\ mainpc' = "stoplock"
    /\ UNCHANGED stream_end
    /\ UNCHANGED << ragVars, getVars, analysed, sessVars, conn, accVars, pause_timer, timer_lock, timers,
                    elapsed, outVars, set_params_sent, evpc, evtVars,
                    termVars, error_logged, unlocked >>

\* stop_streaming, 154-157: under timer_lock cancel and forget the timer.
\* The accumulated text is not looked at.
StopCancel ==
    /\ mainpc = "stoplock"
    /\ timer_lock = 0
    /\ timers' = CancelPending(timers, pause_timer)
    /\ pause_timer' = 0
    /\ mainpc' = "stopped"
    /\ UNCHANGED << ragVars, getVars, analysed, sessVars, conn, is_running, accVars, timer_lock, elapsed,
                    outVars, set_params_sent, stops, stopSrc, terminate_sent,
                    stream_end, evpc, evtVars, termVars, error_logged, unlocked >>

Next ==
    \/ Elapse
    \/ \E text \in Transcripts : on_turn(text, TRUE, TRUE)
    \/ _reset_pause_timer
    \/ \E i \in TimerIds : TimerFire(i)
    \/ \E i \in TimerIds : PauseEnter(i)
    \/ \E i \in TimerIds : PauseEmit(i)
    \/ \E i \in TimerIds : PauseClear(i)
    \/ on_terminated
    \/ TermFlush
    \/ on_error(TRUE)
    \/ start_streaming
    \/ SetRunning
    \/ \E how \in StreamEndings : StreamEnds(how)
    \/ stop_streaming
    \/ StopCancel

Spec == Init /\ [][Next]_vars

TypeOK ==
    /\ pause_timer \in 0..MaxEvents
    /\ timer_lock \in {0} \cup TimerIds
    /\ accumulated_transcript \in Transcripts
    /\ elapsed <= turns + NumStarted
    /\ turns <= nEvents
    /\ nEvents <= MaxEvents

\* ------------------------------------------------------- segmenter: claims
Emissions == 1..Len(emitted)

\* Emissions of the text written by the src-th non-empty Turn event.
EmissionsOf(src) == {k \in Emissions : emitted[k].src = src}

\* A timer is live: started, not cancelled, its thread not yet ended.
Live(i) == timers[i].pc \notin {"unborn", "done"} /\ ~timers[i].finished

\* No timer thread is between its timeout and the end of its callback.
NoCallbackInFlight == \A i \in TimerIds : timers[i].pc \in {"unborn", "wait", "done"}

\* C1: after Turn events "a", "ab", "abc", each delivered before the
\* pause_duration window of the previous one ran out, no utterance other
\* than "abc" has been emitted, "abc" at most once, and exactly once when
\* the last window has run out and every timer thread has ended.
C1_LatestWinsSingleFlush ==
    scen = 3 =>
        /\ \A k \in Emissions : emitted[k].text = <<"a", "b", "c">>
        /\ Len(emitted) <= 1
        /\ (/\ mainpc = "stream"
            /\ conn = "open"
            /\ TimerDue(turns)
            /\ \A i \in TimerIds : timers[i].pc \in {"unborn", "done"})
           => Len(emitted) = 1

\* C2: no pause-branch flush happens before pause_duration has passed since
\* the arrival of the latest Turn event with a non-empty transcript.
C2_NoFlushBeforeDeadline ==
    \A k \in Emissions : emitted[k].branch = "pause" => ~emitted[k].early

C4_AtMostOneLiveTimer == Cardinality({i \in TimerIds : Live(i)}) <= 1

\* C5: when stop_streaming was called on a non-blank accumulated text and
\* has returned then, once the event thread has ended and no timer callback
\* is in flight, that text has been emitted and the accumulated text is
\* empty.
C5_StopFlushes ==
    (mainpc = "stopped" /\ stopSrc # 0 /\ evpc = "dead" /\ NoCallbackInFlight) =>
        /\ EmissionsOf(stopSrc) # {}
        /\ accumulated_transcript = <<>>

\* C6: every access to the accumulated text and to the timer handle is made
\* while timer_lock is held.
C6_LockDiscipline == unlocked = {}

\* ====================================================== vector store client
\* The store outlives the client: a collection may exist before the first
\* call, created (empty) by this or another tool with its own vector size.
\* The segmenter is constructed and unused.
RagInit ==
    /\ RagIdle([CollNames -> {Absent} \cup
                  {[exists |-> TRUE, size |-> n, points |-> {}] : n \in StoredSizes}])
    /\ SegInit({TRUE})

\* "collection_name = collection_name or self.collection_name"
CollectionOrDefault(collection_name) ==
    IF collection_name = None THEN DefaultCollection ELSE collection_name

\* "name = name or 'text_document'", line 42
NameOrDefault(name) == IF name = None THEN "text_document" ELSE name

uuid4_same(n) == 1

\* uuid.uuid4(): an id no earlier call has produced.
uuid4(n) == n + 1

\* -------------------------------------------------- the services called
\* Every call yields [exc, val]: exc when the call raises.
Raise == [exc |-> TRUE, val |-> <<>>]
Return(v) == [exc |-> FALSE, val |-> v]

\* RagClient._get_embedding, 27-29: the Ollama call raises when the service
\* is not reachable (up = FALSE).
_get_embedding(text, up) == IF up THEN Return(Embedding(text)) ELSE Raise

\* QdrantClient.collection_exists
collection_exists(store, name, up) ==
    IF up THEN Return(store[name].exists) ELSE Raise

\* QdrantClient.create_collection with VectorParams(size, COSINE): creating
\* a collection that exists is rejected by the store.
create_collection(store, name, size, up) ==
    IF up /\ ~store[name].exists
    THEN Return([store EXCEPT ![name] = [exists |-> TRUE, size |-> size, points |-> {}]])
    ELSE Raise

upsert_unchecked(store, name, point, up) ==
    IF up /\ store[name].exists
    THEN Return([store EXCEPT ![name].points =
                    {q \in @ : q.id # point.id} \cup {point}])
    ELSE Raise

\* QdrantClient.upsert of one PointStruct: rejected when the collection is
\* missing or the vector length differs from the collection's size; a point
\* with the same id is replaced.
upsert(store, name, point, up) ==
    IF up /\ store[name].exists /\ Len(point.vector) = store[name].size
    THEN Return([store EXCEPT ![name].points =
                    {q \in @ : q.id # point.id} \cup {point}])
    ELSE Raise

delete_collection_all(store, name, up) ==
    IF up THEN Return([c \in DOMAIN store |-> Absent]) ELSE Raise

\* QdrantClient.delete_collection: deleting a missing collection is not an error.
delete_collection(store, name, up) ==
    IF up THEN Return([store EXCEPT ![name] = Absent]) ELSE Raise

\* The orderings a k-NN search may return: limit points (all if fewer),
\* descending by score, no left-out point scoring above a returned one.
TopK(points, vector, limit) ==
    LET n == IF Cardinality(points) < limit THEN Cardinality(points) ELSE limit
        score(q) == Cosine(vector, q.vector)
    IN { r \in [1..n -> points] :
            /\ \A i, j \in 1..n : i < j => r[i] # r[j] /\ score(r[i]) >= score(r[j])
            /\ \A q \in points : (\A i \in 1..n : r[i] # q) =>
                                    \A i \in 1..n : score(r[i]) >= score(q) }

\* QdrantClient.query_points(collection_name, <keyword>=vector, limit).points.
\* The method takes the vector as "query"; any other keyword fails its
\* "Unknown arguments" assertion.  A missing collection or a vector of the
\* wrong length is rejected by the store.  Each hit carries id, score, payload.
query_points(store, name, keyword, vector, limit, order, up) ==
    IF /\ up
       /\ keyword = "query"
       /\ store[name].exists
       /\ Len(vector) = store[name].size
       /\ order \in TopK(store[name].points, vector, limit)
    THEN Return([i \in DOMAIN order |->
                    [id |-> order[i].id, score |-> Cosine(vector, order[i].vector),
                     payload |-> order[i].payload]])
    ELSE Raise

\* dict.get(key, default)
get(d, key, default) == IF key \in DOMAIN d THEN d[key] ELSE default

except_nothing(r, default) == r

\* "except Exception: ... return default": a raising body yields the default.
except_Exception(r, default) == IF r.exc THEN Return(default) ELSE r

Catches_nothing(op) == FALSE

\* Which operations wrap their body in try/except Exception: inject_text
\* (63-64), inject_documents (95-98), clear_collection (155-156);
\* _ensure_collection_exists does not.
Catches(op) == op \in {"inject_text", "inject_documents", "clear_collection"}

\* ------------------------------------------------------ finishing a call
Finish(p, rec) ==
    /\ rlast' = [rlast EXCEPT ![p] = rec]
    /\ rpc' = [rpc EXCEPT ![p] = "idle"]
    /\ rloc' = [rloc EXCEPT ![p] = NoLocals]

CallRecord(loc) ==
    [NoCall EXCEPT !.op = loc.op, !.coll = loc.coll, !.text = loc.text,
                   !.name = loc.name, !.size = loc.size,
                   !.faulty = loc.faulty, !.preAbsent = loc.preAbsent,
                   !.created = loc.created, !.hadSize = loc.hadSize,
                   !.again = loc.again, !.firstCreated = loc.firstCreated,
                   !.firstAbsent = loc.firstAbsent,
                   !.firstHadSize = loc.firstHadSize,
                   !.embedded = loc.embedded, !.preEmpty = loc.preEmpty]

\* A step of the call raised: inside try/except the error is printed and
\* the call returns None, otherwise the exception reaches the caller.
Fail(p, loc) ==
    Finish(p, [CallRecord(loc) EXCEPT !.raised = ~Catches(loc.op),
                                      !.returnsNone = Catches(loc.op),
                                      !.msg = IF Catches(loc.op) THEN "error" ELSE ""])

\* ------------------------------------------- RagClient.inject_text, 40-64
\* Lines 41-44: defaults, then the embedding call.
inject_text(p, text, collection_name, name) ==
    /\ rpc[p] = "idle"
    /\ nextId < MaxPoints
    /\ \E up \in BOOLEAN :
         LET coll == CollectionOrDefault(collection_name)
             e == _get_embedding(text, up)
             loc == [NoLocals EXCEPT !.op = "inject_text", !.text = text,
                                     !.coll = coll, !.name = NameOrDefault(name),
                                     !.size = IF e.exc THEN 0 ELSE Len(e.val),
                                     !.faulty = ~up, !.embedded = TRUE,
                                     !.preAbsent = ~collections[coll].exists]
         IN IF e.exc
            THEN Fail(p, loc)
            ELSE /\ rloc' = [rloc EXCEPT ![p] = loc]
                 /\ rpc' = [rpc EXCEPT ![p] = "exists"]
                 /\ UNCHANGED rlast
    /\ UNCHANGED << segVars, collections, nextId >>

\* open(filename, "r", encoding="utf-8") and file.read(), lines 69-70:
\* FileNotFoundError for a missing file, another exception when the file
\* cannot be read or decoded.
read(filename, readable) ==
    IF filename \in FilesOnDisk /\ readable THEN Return(FileText(filename)) ELSE Raise

IsEmptyFile_never(text) == FALSE

\* "if not text.strip():", line 72
IsEmptyFile(text) == strip(Characters(text)) = <<>>

\* A file on disk may turn out unreadable; for a missing file there is no
\* such question, and the embedding service is only asked for a text
\* that was read and is not blank.
Readable(filename) == IF filename \in FilesOnDisk THEN BOOLEAN ELSE {FALSE}
Embeds(filename, readable) ==
    IF readable /\ ~IsEmptyFile(FileText(filename)) THEN BOOLEAN ELSE {TRUE}

\* ------------------------------------ RagClient.inject_documents, 66-98
\* Lines 67-76: default collection, read the file, return on blank text,
\* then the embedding call.
inject_documents(p, filename, collection_name) ==
    /\ rpc[p] = "idle"
    /\ nextId < MaxPoints
    /\ \E readable \in Readable(filename) :
       \E up \in Embeds(filename, readable) :
         LET coll == CollectionOrDefault(collection_name)
             f == read(filename, readable)
             base == [NoLocals EXCEPT !.op = "inject_documents", !.coll = coll,
                                      !.name = filename,
                                      !.preAbsent = ~collections[coll].exists]
         IN IF f.exc
            THEN Finish(p, [CallRecord(base) EXCEPT
                               !.raised = ~Catches(base.op),
                               !.returnsNone = Catches(base.op),
                               !.faulty = filename \in FilesOnDisk,
                               !.msg = IF filename \in FilesOnDisk
                                       THEN "error" ELSE "not found"])
            ELSE IF IsEmptyFile(f.val)
            THEN Finish(p, [CallRecord(base) EXCEPT !.text = f.val,
                                                    !.returnsNone = TRUE,
                                                    !.msg = "empty"])
            ELSE LET e == _get_embedding(f.val, up)
                     loc == [base EXCEPT !.text = f.val,
                                         !.size = IF e.exc THEN 0 ELSE Len(e.val),
                                         !.faulty = ~up, !.embedded = TRUE]
                 IN IF e.exc
                    THEN Fail(p, loc)
                    ELSE /\ rloc' = [rloc EXCEPT ![p] = loc]
                         /\ rpc' = [rpc EXCEPT ![p] = "exists"]
                         /\ UNCHANGED rlast
    /\ UNCHANGED << segVars, collections, nextId >>

\* The caller's previous call was _ensure_collection_exists with the same
\* arguments and returned.
SameEnsureBefore(p, vector_size, collection_name) ==
    /\ rlast[p].op = "_ensure_collection_exists"
    /\ ~rlast[p].raised
    /\ rlast[p].coll = collection_name
    /\ rlast[p].size = vector_size

\* A direct call of RagClient._ensure_collection_exists(vector_size, collection_name).
ensure_call(p, vector_size, collection_name) ==
    /\ rpc[p] = "idle"
    /\ rloc' = [rloc EXCEPT ![p] =
                  [NoLocals EXCEPT !.op = "_ensure_collection_exists",
                                   !.coll = collection_name, !.size = vector_size,
                                   !.preAbsent = ~collections[collection_name].exists,
                                   !.hadSize = collections[collection_name].size,
                                   !.again = SameEnsureBefore(p, vector_size, collection_name),
                                   !.firstCreated = rlast[p].created,
                                   !.firstAbsent = rlast[p].preAbsent,
                                   !.firstHadSize = rlast[p].hadSize]]
    /\ rpc' = [rpc EXCEPT ![p] = "exists"]
    /\ UNCHANGED << segVars, collections, nextId, rlast >>

MustCreate_always(exists) == TRUE

\* "if not self.qclient.collection_exists(collection_name):", line 32
MustCreate(exists) == ~exists

\* _ensure_collection_exists, line 32: the existence check.
EnsureCheck(p) ==
    /\ rpc[p] = "exists"
    /\ \E up \in BOOLEAN :
         LET loc == [rloc[p] EXCEPT !.faulty = @ \/ ~up]
             r == collection_exists(collections, loc.coll, up)
         IN IF r.exc THEN Fail(p, loc)
            ELSE IF MustCreate(r.val)
            THEN /\ rpc' = [rpc EXCEPT ![p] = "create"]
                 /\ rloc' = [rloc EXCEPT ![p] = loc]
                 /\ UNCHANGED rlast
            ELSE IF loc.op \in {"inject_text", "inject_documents"}
            THEN /\ rpc' = [rpc EXCEPT ![p] = "upsert"]
                 /\ rloc' = [rloc EXCEPT ![p] = loc]
                 /\ UNCHANGED rlast
            ELSE Finish(p, CallRecord(loc))
    /\ UNCHANGED << segVars, collections, nextId >>

\* _ensure_collection_exists, lines 33-38: create_collection.
EnsureCreate(p) ==
    /\ rpc[p] = "create"
    /\ \E up \in BOOLEAN :
         LET loc == [rloc[p] EXCEPT !.faulty = @ \/ ~up]
             r == create_collection(collections, loc.coll, loc.size, up)
             made == [loc EXCEPT !.created = TRUE]
         IN IF r.exc
            THEN Fail(p, loc) /\ UNCHANGED collections
            ELSE /\ collections' = r.val
                 /\ IF loc.op \in {"inject_text", "inject_documents"}
                    THEN /\ rpc' = [rpc EXCEPT ![p] = "upsert"]
                         /\ rloc' = [rloc EXCEPT ![p] = made]
                         /\ UNCHANGED rlast
                    ELSE Finish(p, CallRecord(made))
    /\ UNCHANGED << segVars, nextId >>

\* The payload written: inject_text line 55, inject_documents line 87.
Payload(loc) ==
    IF loc.op = "inject_documents"
    THEN [text |-> loc.text, filename |-> loc.name, name |-> loc.name]
    ELSE [text |-> loc.text, name |-> loc.name]

\* inject_text, lines 47-61, and inject_documents, lines 79-93: a fresh
\* id, the upsert of one point, the success message.  Nothing is returned.
Upsert(p) ==
    /\ rpc[p] = "upsert"
    /\ nextId' = uuid4(nextId)
    /\ \E up \in BOOLEAN :
         LET loc == [rloc[p] EXCEPT !.faulty = @ \/ ~up]
             point == [id |-> uuid4(nextId), vector |-> Embedding(loc.text),
                       payload |-> Payload(loc)]
             r == upsert(collections, loc.coll, point, up)
         IN IF r.exc
            THEN Fail(p, loc) /\ UNCHANGED collections
            ELSE /\ collections' = r.val
                 /\ Finish(p, [CallRecord(loc) EXCEPT !.msg = "ok",
                                                      !.id = point.id,
                                                      !.returnsNone = TRUE])
    /\ UNCHANGED segVars

\* ---------------------------------------------------------- retrieval
\* The keyword under which the query vector is passed to query_points:
\* rag_client.py line 107, rag/rag_retrieve.py line 38.
Keyword(variant) == IF variant = "client" THEN "query_vector" ELSE "query"

\* The result dictionaries: rag_client.py 111-122, rag_retrieve.py 42-51.
ResultDict_notext(variant, hit) ==
    IF variant = "client"
    THEN [text |-> "No text available",
          filename |-> get(hit.payload, "filename", "Unknown file"),
          name |-> get(hit.payload, "name", "Unknown"),
          score |-> hit.score, id |-> hit.id]
    ELSE [text |-> "No text available",
          filename |-> get(hit.payload, "filename", "Unknown file"),
          score |-> hit.score, id |-> hit.id]

ResultDict(variant, hit) ==
    IF variant = "client"
    THEN [text |-> get(hit.payload, "text", "No text available"),
          filename |-> get(hit.payload, "filename", "Unknown file"),
          name |-> get(hit.payload, "name", "Unknown"),
          score |-> hit.score, id |-> hit.id]
    ELSE [text |-> get(hit.payload, "text", "No text available"),
          filename |-> get(hit.payload, "filename", "Unknown file"),
          score |-> hit.score, id |-> hit.id]

\* retrieve_documents: RagClient's (100-128) and the module-level one of
\* rag/rag_retrieve.py (20-57).  The body embeds the query and searches;
\* any exception is caught and [] returned.
retrieve_documents(store, variant, query, coll, limit, order, upE, upQ) ==
    LET e == _get_embedding(query, upE)
        r == IF e.exc THEN Raise
             ELSE query_points(store, coll, Keyword(variant), e.val, limit, order, upQ)
        body == IF r.exc THEN Raise
                ELSE Return([i \in DOMAIN r.val |-> ResultDict(variant, r.val[i])])
    IN except_Exception(body, <<>>)

NoContext == <<"No relevant context found.">>

\* The source named in a block header: rag_client.py line 139,
\* rag_retrieve.py line 79.
Source(variant, result) ==
    IF variant = "client"
    THEN get(result, "filename", get(result, "name", "Unknown"))
    ELSE result.filename

RECURSIVE ContextParts(_, _, _)
ContextParts(variant, results, i) ==
    IF i > Len(results) THEN <<>>
    ELSE (IF i > 1 THEN <<"\n\n---\n\n">> ELSE <<>>)
         \o << "Document ", ToString(i), " (from ", Source(variant, results[i]),
               ", score: ", ToString(results[i].score), "):\n", results[i].text >>
         \o ContextParts(variant, results, i + 1)

\* get_context_for_query: rag_client.py 130-144, rag_retrieve.py 60-82.
get_context_for_query(store, variant, query, coll, limit, order, upE, upQ) ==
    LET results == retrieve_documents(store, variant, query, coll, limit, order, upE, upQ)
    IN IF results.exc THEN results
       ELSE IF results.val = <<>> THEN Return(NoContext)
       ELSE Return(ContextParts(variant, results.val, 1))

\* The collection a variant works on: RagClient falls back to its default
\* (lines 101, 131); the module-level functions are given the name.
TargetCollection(variant, collection_name) ==
    IF variant = "client" THEN CollectionOrDefault(collection_name)
    ELSE collection_name

\* The collection_name arguments each variant is called with.
CallArgs(variant) == IF variant = "client" THEN CollectionArgs ELSE CollNames

\* The caller's previous call was an inject_text that succeeded on this
\* collection, which did not exist before it.
FreshlyInjected(p, coll) ==
    /\ rlast[p].op = "inject_text"
    /\ rlast[p].msg = "ok"
    /\ rlast[p].preAbsent
    /\ rlast[p].coll = coll

ReadRecord(p, op, variant, query, coll, limit, r, faulty) ==
    [NoCall EXCEPT !.fresh = FreshlyInjected(p, coll), !.op = op, !.variant = variant, !.text = query,
                   !.coll = coll, !.limit = limit, !.ret = r.val,
                   !.raised = r.exc, !.faulty = faulty,
                   !.preAbsent = ~collections[coll].exists,
                   !.preEmpty = collections[coll].points = {},
                   !.changed = (collections' # collections)]

\* Whether the next service answers is only a question when the call
\* before it has succeeded and the next one is made.
Reached(ok) == IF ok THEN BOOLEAN ELSE {TRUE}

\* A call of retrieve_documents.
RetrieveCall(p, variant, query, collection_name, limit) ==
    /\ rpc[p] = "idle"
    /\ UNCHANGED << segVars, collections, nextId >>
    /\ LET coll == TargetCollection(variant, collection_name) IN
       \E upE \in BOOLEAN : \E upQ \in Reached(upE) :
       \E order \in TopK(collections[coll].points, Embedding(query), limit) :
         Finish(p, ReadRecord(p, "retrieve_documents", variant, query, coll, limit,
                   retrieve_documents(collections, variant, query, coll, limit,
                                      order, upE, upQ),
                   ~upE \/ ~upQ))

\* A call of get_context_for_query.
ContextCall(p, variant, query, collection_name, limit) ==
    /\ rpc[p] = "idle"
    /\ UNCHANGED << segVars, collections, nextId >>
    /\ LET coll == TargetCollection(variant, collection_name) IN
       \E upE \in BOOLEAN : \E upQ \in Reached(upE) :
       \E order \in TopK(collections[coll].points, Embedding(query), limit) :
         Finish(p, ReadRecord(p, "get_context_for_query", variant, query, coll, limit,
                   get_context_for_query(collections, variant, query, coll, limit,
                                         order, upE, upQ),
                   ~upE \/ ~upQ))

\* The caller's previous call was a clear_collection of this collection
\* during which the store answered.
SameClearBefore(p, coll) ==
    /\ rlast[p].op = "clear_collection"
    /\ rlast[p].coll = coll
    /\ ~rlast[p].faulty

\* ------------------------------------- RagClient.clear_collection, 146-156
\* Line 150: the existence check; an absent collection is only reported.
clear_collection(p, collection_name) ==
    /\ rpc[p] = "idle"
    /\ \E up \in BOOLEAN :
         LET coll == CollectionOrDefault(collection_name)
             loc == [NoLocals EXCEPT !.op = "clear_collection", !.coll = coll,
                                     !.faulty = ~up,
                                     !.preAbsent = ~collections[coll].exists,
                                     !.preEmpty = collections[coll].points = {},
                                     !.again = SameClearBefore(p, coll)]
             r == collection_exists(collections, coll, up)
         IN IF r.exc THEN Fail(p, loc)
            ELSE IF r.val
            THEN /\ rpc' = [rpc EXCEPT ![p] = "delete"]
                 /\ rloc' = [rloc EXCEPT ![p] = loc]
                 /\ UNCHANGED rlast
            ELSE Finish(p, [CallRecord(loc) EXCEPT !.msg = "does not exist",
                                                   !.returnsNone = TRUE,
                                                   !.othersSame = TRUE])
    /\ UNCHANGED << segVars, collections, nextId >>

\* Lines 151-152: delete_collection.
ClearDelete(p) ==
    /\ rpc[p] = "delete"
    /\ \E up \in BOOLEAN :
         LET loc == [rloc[p] EXCEPT !.faulty = @ \/ ~up]
             r == delete_collection(collections, loc.coll, up)
         IN IF r.exc
            THEN Fail(p, loc) /\ UNCHANGED collections
            ELSE /\ collections' = r.val
                 /\ Finish(p, [CallRecord(loc) EXCEPT
                        !.msg = "cleared", !.returnsNone = TRUE,
                        !.changed = (r.val # collections),
                        !.othersSame = \A c \in CollNames \ {loc.coll} :
                                          r.val[c] = collections[c]])
    /\ UNCHANGED << segVars, nextId >>

Variants == {"client", "module"}

\* One caller uses the client, one call after the other.
RagNext ==
    \/ \E d \in Injections, c \in CollectionArgs : inject_text(1, d[1], c, d[2])
    \/ \E f \in Filenames, c \in CollectionArgs : inject_documents(1, f, c)
    \/ \E size \in StoredSizes, c \in CollNames : ensure_call(1, size, c)
    \/ EnsureCheck(1)
    \/ EnsureCreate(1)
    \/ Upsert(1)
    \/ \E v \in Variants, q \in Queries, l \in Limits :
          \E c \in CallArgs(v) : RetrieveCall(1, v, q, c, l)
    \/ \E v \in Variants, q \in Queries :
          \E c \in CallArgs(v) : ContextCall(1, v, q, c, DefaultLimit)
    \/ \E c \in CollectionArgs : clear_collection(1, c)
    \/ ClearDelete(1)

SpecRag == RagInit /\ [][RagNext]_vars

\* ================================================ vector store: the claims
\* The caller is between calls and its last call was op.
Completed(op) == rpc[1] = "idle" /\ rlast[1].op = op

\* C7: self-retrieval.  After RagClient.inject_text("The sky is blue",
\* collection_name = C, name = "doc1") succeeded on a collection C that did
\* not exist before, retrieve_documents("What color is the sky?", C, limit = 1)
\* against a reachable store returns exactly one result, whose text and
\* name are those of the injected point.
C7_SelfRetrieval ==
    ( /\ Completed("retrieve_documents")
      /\ rlast[1].variant = "client"
      /\ rlast[1].fresh
      /\ ~rlast[1].faulty
      /\ rlast[1].limit = 1
      /\ \E pt \in collections[rlast[1].coll].points :
            pt.payload = [text |-> "The sky is blue", name |-> "doc1"] )
    => /\ Len(rlast[1].ret) = 1
       /\ \A i \in DOMAIN rlast[1].ret :
             /\ rlast[1].ret[i].text = "The sky is blue"
             /\ rlast[1].ret[i].name = "doc1"

\* C8 as stated: two _ensure_collection_exists calls in sequence with the
\* same name and size against a reachable store never raise, create the
\* collection at most once, and leave the collection existing with the
\* size of the first call.
C8_EnsureKeepsFirstCallSize ==
    (Completed("_ensure_collection_exists") /\ ~rlast[1].faulty)
    => /\ ~rlast[1].raised
       /\ rlast[1].again =>
            /\ ~(rlast[1].firstCreated /\ rlast[1].created)
            /\ collections[rlast[1].coll].exists
            /\ collections[rlast[1].coll].size = rlast[1].size

\* C8 amended: two _ensure_collection_exists calls in sequence with the
\* same name and size against a reachable store never raise, create the
\* collection at most once, and leave the collection existing: with the
\* size of the first call when it did not exist before that call, with the
\* size it already had otherwise.
C8_EnsureIdempotent ==
    (Completed("_ensure_collection_exists") /\ ~rlast[1].faulty)
    => /\ ~rlast[1].raised
       /\ rlast[1].again =>
            /\ ~(rlast[1].firstCreated /\ rlast[1].created)
            /\ collections[rlast[1].coll].exists
            /\ collections[rlast[1].coll].size =
                  IF rlast[1].firstAbsent THEN rlast[1].size
                  ELSE rlast[1].firstHadSize

\* The second of two equal calls returned; the first had created the collection.
C8_Witness ==
    /\ Completed("_ensure_collection_exists")
    /\ rlast[1].again
    /\ ~rlast[1].faulty
    /\ rlast[1].firstCreated
    /\ ~rlast[1].created
    /\ ~rlast[1].raised

\* C9: get_context_for_query (RagClient's and rag_retrieve's) on a
\* collection that is empty or does not exist returns the sentinel
\* "No relevant context found.", does not raise, and leaves the store as
\* it was, whether or not the embedding service and the store answer.
C9_EmptyContextSentinel ==
    ( /\ Completed("get_context_for_query")
      /\ (rlast[1].preAbsent \/ rlast[1].preEmpty) )
    => /\ rlast[1].ret = NoContext
       /\ ~rlast[1].raised
       /\ ~rlast[1].changed
       /\ rlast[1].preAbsent => ~collections[rlast[1].coll].exists

\* The query went to a collection that does not exist, with both services up.
C9_Witness ==
    /\ Completed("get_context_for_query")
    /\ rlast[1].variant = "module"
    /\ rlast[1].preAbsent
    /\ ~rlast[1].faulty
    /\ rlast[1].ret = NoContext

\* C10: a successful inject_text returns the id of the point it wrote, and
\* that id is stored in the collection with payload {text, name}.
C10_ReturnsPointId ==
    (Completed("inject_text") /\ rlast[1].msg = "ok")
    => /\ ~rlast[1].returnsNone
       /\ \E pt \in collections[rlast[1].coll].points :
             /\ pt.id = rlast[1].id
             /\ pt.payload = [text |-> rlast[1].text, name |-> rlast[1].name]

\* The operations of RagClient that are to hold failures back.
BoundaryOps ==
    {"inject_text", "inject_documents", "retrieve_documents",
     "get_context_for_query", "clear_collection"}

\* The value a RagClient operation returns when a step of it failed.
ReturnsNeutral(call) ==
    CASE call.op = "retrieve_documents" -> call.ret = <<>>
      [] call.op = "get_context_for_query" -> call.ret = NoContext
      [] OTHER -> call.returnsNone

\* C11: no call of RagClient.inject_text, inject_documents,
\* retrieve_documents, get_context_for_query or clear_collection raises,
\* and a call during which a step failed (file read, embedding, existence
\* check, creation, upsert, query, delete) returns its neutral value:
\* None, the empty list, the sentinel.
C11_NoRaiseAcrossBoundary ==
    \A op \in BoundaryOps :
        (Completed(op) /\ rlast[1].variant # "module")
        => /\ ~rlast[1].raised
           /\ rlast[1].faulty => ReturnsNeutral(rlast[1])

\* inject_text created the collection and then failed at the upsert.
C11_Witness ==
    /\ Completed("inject_text")
    /\ rlast[1].faulty
    /\ rlast[1].created
    /\ rlast[1].returnsNone
    /\ rlast[1].msg = "error"

\* The points of the collection a completed read looked at.
PointsRead == collections[rlast[1].coll].points

DescendingScores(ret) ==
    \A i, j \in DOMAIN ret : i < j => ret[i].score >= ret[j].score

\* C12 as stated: retrieve_documents (RagClient's and rag_retrieve's)
\* returns at most limit results, by descending score, each carrying the
\* stored text, name, score and id of a point; the empty list when the
\* embedding call or the store fails; and leaves the store unchanged.
C12_RetrieveCarriesName ==
    Completed("retrieve_documents") =>
        /\ Len(rlast[1].ret) <= rlast[1].limit
        /\ DescendingScores(rlast[1].ret)
        /\ \A i \in DOMAIN rlast[1].ret :
              /\ "name" \in DOMAIN rlast[1].ret[i]
              /\ \E pt \in PointsRead :
                    /\ rlast[1].ret[i].id = pt.id
                    /\ rlast[1].ret[i].text = pt.payload.text
                    /\ rlast[1].ret[i].score =
                          Cosine(Embedding(rlast[1].text), pt.vector)
        /\ rlast[1].faulty => rlast[1].ret = <<>>
        /\ ~rlast[1].changed

\* C12 amended: retrieve_documents (RagClient's and rag_retrieve's)
\* returns at most limit results, by descending score, each carrying the
\* stored text, score and id of a point and its stored filename (or
\* "Unknown file"); RagClient's results also carry the stored name.  It
\* returns the empty list when the embedding call or the store fails, and
\* leaves the store unchanged.
C12_RetrieveResults ==
    Completed("retrieve_documents") =>
        /\ Len(rlast[1].ret) <= rlast[1].limit
        /\ DescendingScores(rlast[1].ret)
        /\ \A i \in DOMAIN rlast[1].ret :
              \E pt \in PointsRead :
                 /\ rlast[1].ret[i].id = pt.id
                 /\ rlast[1].ret[i].text = pt.payload.text
                 /\ rlast[1].ret[i].score =
                       Cosine(Embedding(rlast[1].text), pt.vector)
                 /\ rlast[1].ret[i].filename =
                       get(pt.payload, "filename", "Unknown file")
                 /\ rlast[1].variant = "client" =>
                       rlast[1].ret[i].name = get(pt.payload, "name", "Unknown")
        /\ rlast[1].faulty => rlast[1].ret = <<>>
        /\ ~rlast[1].changed

\* Two stored points came back, the better-scoring one first.
C12_Witness ==
    /\ Completed("retrieve_documents")
    /\ Len(rlast[1].ret) = 2
    /\ rlast[1].ret[1].score > rlast[1].ret[2].score

\* C13: a clear_collection(C) during which the store answers does not
\* raise and leaves C absent and without points and every other
\* collection as it was; when C was absent nothing changes; and a second
\* clear_collection(C) right after the first changes nothing.
C13_ClearCollection ==
    (Completed("clear_collection") /\ ~rlast[1].faulty)
    => /\ ~rlast[1].raised
       /\ collections[rlast[1].coll] = Absent
       /\ rlast[1].othersSame
       /\ rlast[1].preAbsent => ~rlast[1].changed
       /\ rlast[1].again => ~rlast[1].changed

\* A collection holding points was cleared while another one holds points.
C13_Witness ==
    /\ Completed("clear_collection")
    /\ ~rlast[1].faulty
    /\ ~rlast[1].preEmpty
    /\ rlast[1].changed
    /\ \E c \in CollNames \ {rlast[1].coll} : collections[c].points # {}

\* The last call wrote a point with this payload under the id it reports.
Wrote(payload) ==
    \E pt \in collections[rlast[1].coll].points :
        pt.id = rlast[1].id /\ pt.payload = payload

\* The collection the last insert addressed was absent or had the size of
\* the insert's embedding.
SizeFits == rlast[1].preAbsent \/ collections[rlast[1].coll].size = rlast[1].size

\* C14: inject_documents never raises; for a missing file and for a file
\* whose text is empty or blank it makes no embedding call, creates no
\* collection and writes no point; for any other readable file, with the
\* embedding service and the store answering and the collection absent or
\* of the embedding's size, it writes one point with text = file content
\* and filename = name = the file path.
C14_InjectDocumentsValidation ==
    Completed("inject_documents") =>
        /\ ~rlast[1].raised
        /\ (rlast[1].name \notin FilesOnDisk \/ rlast[1].msg = "empty")
              => /\ ~rlast[1].embedded
                 /\ ~rlast[1].created
                 /\ rlast[1].id = 0
                 /\ \A c \in CollNames : \A pt \in collections[c].points :
                       pt.payload.text \notin {"", " "}
        /\ (rlast[1].name \in {"empty.txt", "blank.txt"} /\ ~rlast[1].faulty)
              => rlast[1].msg = "empty"
        /\ (rlast[1].name = "doc.txt" /\ ~rlast[1].faulty /\ SizeFits)
              => /\ rlast[1].msg = "ok"
                 /\ Wrote([text |-> FileText("doc.txt"), filename |-> "doc.txt",
                           name |-> "doc.txt"])

\* A file holding one blank was given while the store holds a document.
C14_Witness ==
    /\ Completed("inject_documents")
    /\ rlast[1].name = "blank.txt"
    /\ rlast[1].msg = "empty"
    /\ \E c \in CollNames : \E pt \in collections[c].points : pt.payload.text = FileText("doc.txt")

\* An insert: inject_text or inject_documents.
CompletedInsert == Completed("inject_text") \/ Completed("inject_documents")

\* C15: every point of a collection has a vector of the collection's
\* size; an insert into an absent collection that gets as far as creating
\* it sizes it to the insert's embedding; an insert whose embedding length
\* differs from the size of the existing collection does not raise,
\* reports an error and stores no point.
C15_Dimensionality ==
    /\ \A c \in CollNames : \A pt \in collections[c].points :
          Len(pt.vector) = collections[c].size
    /\ (CompletedInsert /\ rlast[1].preAbsent /\ rlast[1].created)
          => /\ collections[rlast[1].coll].exists
             /\ collections[rlast[1].coll].size = Len(Embedding(rlast[1].text))
    /\ (CompletedInsert /\ rlast[1].preAbsent /\ rlast[1].embedded /\ ~rlast[1].faulty)
          => rlast[1].created
    /\ (CompletedInsert /\ rlast[1].size # 0 /\ ~SizeFits)
          => /\ ~rlast[1].raised
             /\ rlast[1].msg = "error"
             /\ rlast[1].id = 0
             /\ collections[rlast[1].coll].points = {}

\* An insert met a collection of another size while every service answered.
C15_Witness ==
    /\ Completed("inject_text")
    /\ ~rlast[1].faulty
    /\ ~SizeFits
    /\ rlast[1].msg = "error"

\* ------------------------------------------------ segmenter: more claims
\* C16: when on_error has handled an error event, is_running is False.
C16_ErrorMarksInactive ==
    [][(~error_logged /\ error_logged') => ~is_running']_vars

\* C17: every utterance put on the queue is non-empty and was passed to
\* the callback.
C17_EmittedNonEmpty ==
    \A k \in Emissions : emitted[k].text # <<>> /\ emitted[k].called

\* ============================================== the consumer of the queue
\* timeout arguments of get_transcript
Timeouts == {None, "1.0"}

\* Turn transcripts delivered while a consumer polls the queue.
QueueTexts == { <<"a">>, <<"a", "b">> }

queue_get_lifo(q) == [item |-> q[Len(q)], rest |-> SubSeq(q, 1, Len(q) - 1)]

\* queue.Queue.get on a non-empty queue: the oldest item leaves the queue.
queue_get(q) == [item |-> Head(q), rest |-> Tail(q)]

\* "except queue.Empty: return None", lines 163-164
on_queue_Empty == "None"

\* get_transcript, 159-164.  On an empty queue get(timeout=None) blocks;
\* with a timeout queue.Empty is raised when it runs out.
get_transcript(timeout) ==
    /\ transcript_queue = <<>> => timeout # None
    /\ IF transcript_queue # <<>>
       THEN /\ received' = Append(received, queue_get(transcript_queue).item)
            /\ transcript_queue' = queue_get(transcript_queue).rest
            /\ lastGet' = "item"
       ELSE /\ lastGet' = on_queue_Empty
            /\ UNCHANGED << received, transcript_queue >>
    /\ UNCHANGED << ragVars, analysed, sessVars, conn, is_running, accVars, pause_timer,
                    timer_lock, timers, elapsed, emitted, set_params_sent,
                    mainVars, evpc, evtVars, termVars, error_logged, unlocked >>

\* A session whose queue is polled by a consumer thread.
QueueNext ==
    \/ Elapse
    \/ \E text \in QueueTexts : on_turn(text, TRUE, TRUE)
    \/ _reset_pause_timer
    \/ \E i \in TimerIds : TimerFire(i)
    \/ \E i \in TimerIds : PauseEnter(i)
    \/ \E i \in TimerIds : PauseEmit(i)
    \/ \E i \in TimerIds : PauseClear(i)
    \/ on_terminated
    \/ TermFlush
    \/ on_error(TRUE)
    \/ start_streaming
    \/ SetRunning
    \/ \E how \in StreamEndings : StreamEnds(how)
    \/ stop_streaming
    \/ StopCancel
    \/ \E timeout \in Timeouts : get_transcript(timeout)

SpecQueue == Init /\ [][QueueNext]_vars

\* C18: the utterances get_transcript has returned, followed by those
\* still on the queue, are the flushed utterances in the order of their
\* flushes, each once; each was handed to the callback; and get_transcript
\* on an empty queue ends by returning None, not by raising.
C18_FifoDelivery ==
    /\ received \o transcript_queue = [k \in Emissions |-> emitted[k].text]
    /\ \A k \in Emissions : emitted[k].called
    /\ lastGet \in {"no call", "item", "None"}

\* Two different utterances were returned, then the queue was found empty.
C18_Witness ==
    /\ Len(received) = 2
    /\ received[1] # received[2]
    /\ lastGet = "None"

\* The flush a step adds to the history, if it adds one.
NewEmission == emitted'[Len(emitted')]

\* C19 as stated: the callback is invoked from timer callbacks only.
C19_CallbackOnlyFromTimer ==
    \A k \in Emissions : emitted[k].called => emitted[k].branch = "pause"

\* C19 amended: a step invokes the callback at most once, and the step is
\* either lines 51-53 of a timer thread's _on_pause_detected, which a
\* timer thread executes at most once, or the with-block of on_terminated
\* on the event-delivery thread; on_turn never invokes it.
C19_CallbackContexts ==
    [][ /\ Len(emitted') <= Len(emitted) + 1
        /\ Len(emitted') = Len(emitted) + 1 =>
              \/ /\ NewEmission.branch = "pause"
                 /\ \E i \in TimerIds : /\ timers[i].pc = "emit"
                                        /\ timers'[i].pc = "clear"
                                        /\ timer_lock = i
              \/ /\ NewEmission.branch = "term"
                 /\ evpc = "term"
                 /\ evpc' = "dead"
        /\ \A i \in TimerIds : timers[i].pc \in {"clear", "done"} =>
                                  timers'[i].pc \in {"clear", "done"} ]_vars

\* The callback was invoked by a timer callback and by on_terminated.
C19_Witness ==
    /\ \E k \in Emissions : emitted[k].branch = "pause" /\ emitted[k].called
    /\ \E k \in Emissions : emitted[k].branch = "term" /\ emitted[k].called

\* The ids of all points of a store.
AllIds(store) == { pt.id : pt \in UNION { store[c].points : c \in CollNames } }

\* C20: a step changes the points of a collection only as the delete of
\* clear_collection on that collection, or as the upsert of an insert,
\* which adds one point under an id no stored point has and keeps every
\* other point; and every successful insert does add its point.
C20_PointLifecycle ==
    [][ /\ \A c \in CollNames :
              collections'[c].points # collections[c].points =>
                 \/ /\ rpc[1] = "delete"
                    /\ rloc[1].op = "clear_collection"
                    /\ rloc[1].coll = c
                    /\ collections'[c] = Absent
                 \/ /\ rpc[1] = "upsert"
                    /\ rloc[1].op \in {"inject_text", "inject_documents"}
                    /\ rloc[1].coll = c
                    /\ \E pt \in collections'[c].points :
                          /\ collections'[c].points = collections[c].points \cup {pt}
                          /\ pt.id \notin AllIds(collections)
        /\ (rpc[1] = "upsert" /\ rlast'[1].msg = "ok") =>
              /\ Cardinality(collections'[rloc[1].coll].points)
                    = Cardinality(collections[rloc[1].coll].points) + 1
              /\ \A c \in CollNames \ {rloc[1].coll} : collections'[c] = collections[c]
      ]_vars

\* The same text was injected twice and two points hold it.
C20_Witness ==
    \E c \in CollNames : \E p1, p2 \in collections[c].points :
        p1.id # p2.id /\ p1.payload = p2.payload

\* ------------------------------------------- segmenter: states and teardown
\* No event handler, no stop_streaming call and no timer callback is
\* executing.
Quiescent ==
    /\ evpc \in {"idle", "dead"}
    /\ mainpc # "stoplock"
    /\ NoCallbackInFlight

\* C21: whenever no event handler and no timer callback is executing, the
\* segmenter is Idle (accumulated text empty, pause_timer None) or
\* Accumulating (accumulated text non-empty, pause_timer referencing a live
\* timer, the only live one).
C21_TwoStates ==
    Quiescent =>
        \/ accumulated_transcript = <<>> /\ pause_timer = 0
        \/ /\ accumulated_transcript # <<>>
           /\ pause_timer # 0
           /\ \A i \in TimerIds : Live(i) <=> i = pause_timer

\* C22: a step empties the accumulated text only when that same text has
\* been emitted.
C22_NoLostText ==
    [][(accSrc # 0 /\ accSrc' = 0) =>
          \E k \in 1..Len(emitted') : emitted'[k].src = accSrc]_vars

\* C23: without an api key start_streaming raises ValueError, no client is
\* ever created and is_running stays False.  With one, start_streaming is
\* left only through stop_streaming, and when the stop_streaming call of
\* its finally clause returns, however stream() ended,
\* disconnect(terminate=True) has been requested, is_running is False and
\* pause_timer is None.
C23_EndsStopped ==
    [][ /\ ~api_key => /\ ~client' /\ ~is_running'
                       /\ mainpc = "init" => mainpc' = "raised"
        /\ (mainpc' = "stopped" /\ mainpc # "stopped") => mainpc = "stoplock"
        /\ (api_key /\ mainpc = "stoplock" /\ mainpc' = "stopped") =>
              /\ stream_end \in StreamEndings
              /\ terminate_sent'
              /\ ~is_running'
              /\ pause_timer' = 0 ]_vars

\* stream() ended with an exception other than KeyboardInterrupt while a
\* timer was pending and no Termination event had arrived; start_streaming
\* has been left.
C23_Witness ==
    /\ mainpc = "stopped"
    /\ stops = 1
    /\ stream_end = "Exception"
    /\ evpc = "idle"
    /\ terminate_sent
    /\ ~is_running
    /\ pause_timer = 0
    /\ \E i \in TimerIds : timers[i].pc = "done" /\ timers[i].finished /\ accSrc = i

\* on_terminated has run to its end.
Terminated == evpc = "dead" /\ ~error_logged

\* C30: once on_terminated or stop_streaming has completed, no step starts
\* a timer and no step emits an utterance.
C30_QuiescentAfterTeardown ==
    [][(Terminated \/ mainpc = "stopped") =>
          /\ emitted' = emitted
          /\ \A i \in TimerIds : timers[i].pc = "unborn" => timers'[i].pc = "unborn"
      ]_vars

\* ================================================= a consumer that raises
\* transcript_queue.put(transcript), then a callback that raises: the
\* utterance is on the queue and the exception leaves the with-block.
DeliverCallbackRaises(transcript, src, branch) ==
    /\ transcript_queue' = Append(transcript_queue, transcript)
    /\ emitted' = Append(emitted, [text |-> transcript, src |-> src,
                                   branch |-> branch,
                                   early |-> ~WindowElapsed(turns),
                                   called |-> TRUE, raised |-> TRUE])

\* _on_pause_detected, 48-53, when the callback raises: leaving the
\* with-block releases timer_lock, lines 56 and 59 are skipped, and the
\* exception ends the timer thread before Timer.run() sets finished.
PauseEmitRaises(i) ==
    /\ timers[i].pc = "emit"
    /\ on_transcript_callback
    /\ DeliverCallbackRaises(strip(accumulated_transcript), accSrc, "pause")
    /\ timer_lock' = 0
    /\ timers' = [timers EXCEPT ![i].pc = "done"]
    /\ UNCHANGED << ragVars, getVars, analysed, sessVars, conn, is_running, accVars,
                    pause_timer, elapsed, set_params_sent, mainVars, evpc,
                    evtVars, termVars, error_logged, unlocked >>

\* on_terminated, 96-108, when the callback raises: the timer has been
\* cancelled and forgotten, line 110 is skipped and the exception leaves
\* the handler.
TermFlushRaises ==
    /\ evpc = "term"
    /\ timer_lock = 0
    /\ on_transcript_callback
    /\ strip(accumulated_transcript) # <<>>
    /\ timers' = CancelPending(timers, pause_timer)
    /\ pause_timer' = 0
    /\ DeliverCallbackRaises(strip(accumulated_transcript), accSrc, "term")
    /\ evpc' = "dead"
    /\ UNCHANGED << ragVars, getVars, analysed, sessVars, conn, is_running, accVars,
                    timer_lock, elapsed, set_params_sent, mainVars, evtVars,
                    termVars, error_logged, unlocked >>

\* A session whose consumer callback may raise.
CallbackNext ==
    \/ Elapse
    \/ \E text \in QueueTexts : on_turn(text, TRUE, TRUE)
    \/ _reset_pause_timer
    \/ \E i \in TimerIds : TimerFire(i)
    \/ \E i \in TimerIds : PauseEnter(i)
    \/ \E i \in TimerIds : PauseEmit(i)
    \/ \E i \in TimerIds : PauseClear(i)
    \/ on_terminated
    \/ TermFlush
    \/ on_error(TRUE)
    \/ start_streaming
    \/ SetRunning
    \/ \E how \in StreamEndings : StreamEnds(how)
    \/ stop_streaming
    \/ StopCancel
    \/ \E i \in TimerIds : PauseEmitRaises(i)
    \/ TermFlushRaises

SpecCallback == Init /\ [][CallbackNext]_vars

\* C27: timer_lock is held only by a timer thread inside its callback, so
\* a flush whose consumer callback raised has released it; and the
\* utterance such a flush had put on the queue is not put on it again.
C27_NoDuplicateAfterRaise ==
    /\ timer_lock # 0 => timers[timer_lock].pc \in {"emit", "clear"}
    /\ \A k \in Emissions :
          emitted[k].raised => Cardinality(EmissionsOf(emitted[k].src)) = 1

\* ==================================================== Turn events' flags
\* Transcripts of the Turn events whose flags vary.
FlagTexts == { <<>>, <<"a">> }

\* A session whose Turn events carry any end_of_turn and turn_is_formatted.
FlagsNext ==
    \/ Elapse
    \/ \E text \in FlagTexts : \E end_of_turn, formatted \in BOOLEAN :
          on_turn(text, end_of_turn, formatted)
    \/ _reset_pause_timer
    \/ \E i \in TimerIds : TimerFire(i)
    \/ \E i \in TimerIds : PauseEnter(i)
    \/ \E i \in TimerIds : PauseEmit(i)
    \/ \E i \in TimerIds : PauseClear(i)
    \/ on_terminated
    \/ TermFlush
    \/ on_error(TRUE)
    \/ start_streaming
    \/ SetRunning
    \/ \E how \in StreamEndings : StreamEnds(how)
    \/ stop_streaming
    \/ StopCancel

SpecFlags == Init /\ [][FlagsNext]_vars

\* C29: a Turn event with an empty transcript, whatever its flags, leaves
\* the accumulated text, last_activity_time, the timer handle, every timer
\* and the passed deadlines, and the queue unchanged, and does not go on to
\* _reset_pause_timer.
C29_EmptyTurnInert ==
    [][(\E end_of_turn, formatted \in BOOLEAN : on_turn(<<>>, end_of_turn, formatted))
          => /\ UNCHANGED << accVars, pause_timer, timers, elapsed, outVars >>
             /\ evpc' = "idle" ]_vars

\* Two empty Turn events were delivered while a timer was pending for a
\* text, a formatting request was made; the timer and the text are still
\* there.
C29_Witness ==
    /\ nEvents >= turns + 2
    /\ set_params_sent
    /\ pause_timer # 0
    /\ timers[pause_timer].pc = "wait"
    /\ accumulated_transcript = <<"a">>
    /\ nEvents = MaxEvents

\* ================================================ the consumer's analyses
\* ConversationHandler._process_transcript, 53-72: a blank transcript is
\* dropped; otherwise a daemon thread running _run_agent_analysis is
\* started and the callback returns.  The threads started so far:
AnalysesStarted ==
    Cardinality({k \in Emissions : emitted[k].called /\ strip(emitted[k].text) # <<>>})

\* _run_agent_analysis, 74-107: an analysis thread runs to its end; it
\* takes no lock of the segmenter.
_run_agent_analysis ==
    /\ analysed < AnalysesStarted
    /\ analysed' = analysed + 1
    /\ UNCHANGED << ragVars, getVars, sessVars, conn, is_running, accVars,
                    pause_timer, timer_lock, timers, elapsed, outVars,
                    set_params_sent, mainVars, evpc, evtVars, termVars,
                    error_logged, unlocked >>

\* Turn transcripts of the sessions checked for progress: sessions without
\* error events, whose stream() returns.
LiveTexts == { <<"a">> }

LiveNext ==
    \/ Elapse
    \/ \E text \in LiveTexts : on_turn(text, TRUE, TRUE)
    \/ _reset_pause_timer
    \/ \E i \in TimerIds : TimerFire(i)
    \/ \E i \in TimerIds : PauseEnter(i)
    \/ \E i \in TimerIds : PauseEmit(i)
    \/ \E i \in TimerIds : PauseClear(i)
    \/ on_terminated
    \/ TermFlush
    \/ start_streaming
    \/ SetRunning
    \/ StreamEnds("return")
    \/ stop_streaming
    \/ StopCancel
    \/ _run_agent_analysis

\* Every thread that can take a step is eventually scheduled: the event
\* thread and the main thread at their with-blocks, a timer thread inside
\* its callback.
LiveFairness ==
    /\ WF_vars(_reset_pause_timer)
    /\ WF_vars(TermFlush)
    /\ WF_vars(StopCancel)
    /\ \A i \in TimerIds :
          WF_vars(PauseEnter(i)) /\ WF_vars(PauseEmit(i)) /\ WF_vars(PauseClear(i))

SpecLive == Init /\ [][LiveNext]_vars /\ LiveFairness

\* C28: every thread that requests timer_lock gets through its
\* with-block, and a held timer_lock is released.
C28_DeadlockFree ==
    /\ (evpc = "reset") ~> (evpc = "idle")
    /\ (evpc = "term") ~> (evpc = "dead")
    /\ (mainpc = "stoplock") ~> (mainpc = "stopped")
    /\ \A i \in TimerIds : (timers[i].pc = "fired") ~> (timers[i].pc = "done")
    /\ (timer_lock # 0) ~> (timer_lock = 0)

\* Two analyses are running while a timer callback holds timer_lock.
C28_Witness ==
    /\ AnalysesStarted - analysed >= 2
    /\ timer_lock # 0

\* ============================================ two callers of the client
\* Nothing is stored yet.
PairInit == RagIdle({[c \in CollNames |-> Absent]}) /\ SegInit({TRUE})

\* Two threads call inject_text on collection "T"; their steps interleave.
PairNext ==
    \/ \E p \in Procs, d \in Injections : inject_text(p, d[1], "T", d[2])
    \/ \E p \in Procs : EnsureCheck(p)
    \/ \E p \in Procs : EnsureCreate(p)
    \/ \E p \in Procs : Upsert(p)

SpecPair == PairInit /\ [][PairNext]_vars

\* C24: when both callers have completed an inject_text that began while
\* the collection did not exist, and every service answered, the
\* collection was created by exactly one of them, both inserts succeeded
\* and both points are stored.
C24_ConcurrentFirstInserts ==
    (\A p \in Procs : /\ rpc[p] = "idle"
                      /\ rlast[p].op = "inject_text"
                      /\ rlast[p].coll = "T"
                      /\ rlast[p].preAbsent
                      /\ ~rlast[p].faulty)
    => /\ Cardinality({p \in Procs : rlast[p].created}) = 1
       /\ \A p \in Procs : rlast[p].msg = "ok"
       /\ Cardinality(collections["T"].points) = 2

\* An insert has ended in its except clause.
FailedInsert ==
    /\ rpc[1] = "idle"
    /\ rlast[1].op \in {"inject_text", "inject_documents"}
    /\ rlast[1].msg \in {"error", "not found"}

\* C25: after a failed inject_text or inject_documents the collection
\* exists exactly if it existed before the call, and the call has created
\* nothing.
C25_FailedInsertUnchanged ==
    FailedInsert =>
        /\ ~rlast[1].created
        /\ collections[rlast[1].coll].exists = ~rlast[1].preAbsent

\* C26: after inject_text("The sky is blue", name = "doc1") succeeded on a
\* collection that did not exist before, RagClient.get_context_for_query on
\* that collection against reachable services returns the one block
\* headed "Document 1 (from doc1, score: <score>)".
C26_ContextHeaderSource ==
    ( /\ Completed("get_context_for_query")
      /\ rlast[1].variant = "client"
      /\ rlast[1].fresh
      /\ ~rlast[1].faulty
      /\ \E pt \in collections[rlast[1].coll].points :
            pt.payload = [text |-> "The sky is blue", name |-> "doc1"] )
    => rlast[1].ret =
          << "Document ", "1", " (from ", "doc1", ", score: ",
             ToString(Cosine(Embedding(rlast[1].text), Embedding("The sky is blue"))),
             "):\n", "The sky is blue" >>

====
